---- MODULE Spec2Model ----
(***************************************************************************)
(* A model of changuito/proxy.py: the CartProxy class over the Cart and   *)
(* Item tables.  The database holds the rows (carts, items); a CartProxy   *)
(* holds an in-memory copy of its cart row (self.cart), which goes stale   *)
(* when another proxy writes the same row.  Every handler of CartProxy is  *)
(* one action; `last` records the most recent call, its arguments, the     *)
(* exception it raised and the value it returned.  add and the resolution  *)
(* of a request are also given step by step, lookup and write apart, for   *)
(* callers that run at the same time: the code opens no transaction and    *)
(* takes no lock.                                                          *)
(*                                                                         *)
(* The Cart and Item models (changuito/models.py) are not part of the      *)
(* source at hand: a new Cart has checked_out = False, an Item is found by *)
(* (cart, product) with a product a (kind, id) pair, and deleting a Cart   *)
(* deletes its Items.  Quantities are integers, on which int() is the      *)
(* identity.  Primary keys are never reused.                               *)
(***************************************************************************)
EXTENDS Integers, FiniteSets, Sequences, TLC

\* ---------------------------------------------------------------- bounds
NumUsers      == 1     \* authenticated users 1..NumUsers
NumSessions   == 1     \* session stores 1..NumSessions
MaxCarts      == 3     \* Cart rows ever inserted (ids are never reused)
MaxItems      == 2     \* Item rows ever inserted (ids are never reused)
NumProxies    == 1     \* CartProxy objects alive at once
NumKinds      == 2     \* product kinds (content types)
NumProductIds == 1     \* product ids per kind
MaxPrice      == 2     \* unit prices, in the smallest currency unit
MaxQtyArg     == 1     \* quantity arguments range over -1..MaxQtyArg
MaxQuantity   == 2     \* stored quantities are kept within -MaxQuantity..MaxQuantity
LifecycleItems == 1    \* Item rows inserted while the cart life cycle is explored
MaxShipping   == 1     \* amounts the configured shipping function returns
NumAddedIds   == 2     \* product ids per kind where adds of distinct products are explored
NumThreads    == 2     \* threads that run add or a resolution step by step
RaceItems     == 3     \* Item rows inserted while interleaved adds are explored

None      == 0         \* Python None / no row id
Anonymous == 0         \* request.user.is_anonymous()

Users      == 1..NumUsers
Sessions   == 1..NumSessions
CartIds    == 1..MaxCarts
ItemIds    == 1..MaxItems
Proxies    == 1..NumProxies
Products   == (1..NumKinds) \X (1..NumProductIds)
Prices     == 1..MaxPrice
Quantities == (0 - 1)..MaxQtyArg
Shipping   == 0..MaxShipping
AddedProducts == (1..NumKinds) \X (1..NumAddedIds)
Threads    == 1..NumThreads

NoProduct == <<0, 0>>
NoRequest == [session |-> None, user |-> 0 - 1]
Requests  == [session : Sessions, user : {Anonymous} \cup Users]
NoCartObj == [id |-> None, user |-> None, checked_out |-> FALSE]
NoProxy   == [cart |-> NoCartObj]

VARIABLES
    carts,       \* Cart table: id -> [user, checked_out]
    items,       \* Item table: id -> [cart, product, unit_price, quantity]
    nextCartId,  \* next Cart primary key
    nextItemId,  \* next Item primary key
    session,     \* request.session[CART_ID] of each session (None when unset)
    proxies,     \* CartProxy objects: self.cart, an in-memory copy of a Cart row
                 \* (self.request is read by render_html alone and is left out)
    addlog,      \* history: per Item, the adds that made it (first price, sum)
    last,        \* the most recent call and its outcome
    threads      \* calls run step by step: what a thread read at its lookup,
                 \* until and after it writes

vars == <<carts, items, nextCartId, nextItemId, session, proxies, addlog, last, threads>>

\* A call: its handler, its arguments (the identity of a resolution is the user
\* and, when anonymous, the session), the exception it raised, the id of the row
\* it returned and whether it inserted a Cart.  A money argument or amount is in
\* price, a returned truth value in bool.
NoCall == [op |-> "init", user |-> 0, session |-> 0, cart |-> 0, item |-> 0,
           product |-> NoProduct, price |-> 0, qty |-> 0,
           exc |-> "none", ret |-> 0, new |-> FALSE, bool |-> FALSE]

\* A thread between the lookup and the write of a call (pc = "looked") or after
\* the call (pc = "done"): the proxy, the arguments, the outcome st of the lookup,
\* the Item obj that the lookup read into memory, and the id of the row written.
NoItemObj == [id |-> None, cart |-> None, product |-> NoProduct,
              unit_price |-> 0, quantity |-> 0]

Idle == [pc |-> "idle", op |-> "none", p |-> 0, request |-> NoRequest,
         cart |-> None, product |-> NoProduct, unit_price |-> 0, quantity |-> 0,
         st |-> "none", obj |-> NoItemObj, row |-> None]

\* ------------------------------------------------------------ ORM helpers
\* QuerySet.get(): the single matching row, DoesNotExist or MultipleObjectsReturned.
Get(S) ==
    IF S = {} THEN [st |-> "DoesNotExist", v |-> None]
    ELSE IF Cardinality(S) = 1 THEN [st |-> "ok", v |-> CHOOSE x \in S : TRUE]
    ELSE [st |-> "MultipleObjectsReturned", v |-> None]

\* The in-memory object of a Cart row.
CartRow(c) == [id |-> c, user |-> carts[c].user, checked_out |-> carts[c].checked_out]

\* cart.save(): UPDATE the row with the object's fields, INSERT it when no row has its pk.
CartSave(obj) ==
    [c \in DOMAIN carts \cup {obj.id} |->
        IF c = obj.id THEN [user |-> obj.user, checked_out |-> obj.checked_out]
        ELSE carts[c]]

\* cart.delete(): the row goes, and the Items whose cart it is go with it.
CartsAfterDelete(c) == [d \in DOMAIN carts \ {c} |-> carts[d]]
ItemsAfterCartDelete(c) ==
    [i \in {j \in DOMAIN items : items[j].cart # c} |-> items[i]]
LogAfterCartDelete(c) ==
    [i \in {j \in DOMAIN items : items[j].cart # c} |-> addlog[i]]

Init ==
    /\ carts = <<>>
    /\ items = <<>>
    /\ nextCartId = 1
    /\ nextItemId = 1
    /\ session = [s \in Sessions |-> None]
    /\ proxies = [p \in Proxies |-> NoProxy]
    /\ addlog = <<>>
    /\ last = NoCall
    /\ threads = [t \in Threads |-> Idle]

\* ------------------------------------------------------ CartProxy.__init__
\* A lookup that selects on checked_out=True.
UserLookup_CheckedOut(user) ==
    Get({c \in DOMAIN carts : carts[c].user = user /\ carts[c].checked_out})

\* A lookup that leaves the checked_out filter out.
UserLookup_AnyState(user) == Get({c \in DOMAIN carts : carts[c].user = user})

\* A lookup that returns the first of the user's open carts when there are several.
UserLookup_First(user) ==
    LET S == {c \in DOMAIN carts : carts[c].user = user /\ ~carts[c].checked_out}
    IN IF S = {} THEN [st |-> "DoesNotExist", v |-> None]
       ELSE [st |-> "ok", v |-> CHOOSE c \in S : \A d \in S : c <= d]

\* Cart.objects.get(user=user, checked_out=False)
UserLookup(user) ==
    Get({c \in DOMAIN carts : carts[c].user = user /\ ~carts[c].checked_out})

\* Cart.objects.get(id=cart_id, checked_out=False)
SessionLookup(cart_id) ==
    Get({c \in DOMAIN carts : c = cart_id /\ ~carts[c].checked_out})

\* Cart.objects.get(id=cart.id) / Cart.objects.get(pk=cart_id)
IdLookup(cart_id) == Get({c \in DOMAIN carts : c = cart_id})

\* The try block: `user` is unbound when request is None, so its first use raises.
TryLookup(request) ==
    IF request = NoRequest THEN [st |-> "UnboundLocalError", v |-> None]
    ELSE IF request.user # Anonymous THEN UserLookup(request.user)
    ELSE SessionLookup(session[request.session])

\* models.Cart(creation_date=timezone.now(), user=user)
NewCart(user) == [id |-> nextCartId, user |-> user, checked_out |-> FALSE]

\* A new() that does not store the cart id in the session.
SessionAfterNew_NotStored(request, cart_id) == session

\* request.session[CART_ID] = cart.id
SessionAfterNew(request, cart_id) == [session EXCEPT ![request.session] = cart_id]

\* The session token of an anonymous identity (None for any other request).
IdentitySession(request) ==
    IF request.user = Anonymous THEN request.session ELSE None

\* The body of __init__: the exception that escapes it, the cart it binds and
\* whether that cart is a new row.
Resolution(request, cart) ==
    LET r == TryLookup(request) IN
    IF r.st = "ok"
    THEN [exc |-> "none", cart |-> CartRow(r.v), new |-> FALSE]
    ELSE IF cart = None
    THEN IF request = NoRequest
         THEN [exc |-> "UnboundLocalError", cart |-> NoCartObj, new |-> FALSE]
         ELSE [exc |-> "none", cart |-> NewCart(request.user), new |-> TRUE]
    ELSE IF IdLookup(cart).st = "ok"
    THEN [exc |-> "none", cart |-> CartRow(cart), new |-> FALSE]
    ELSE [exc |-> "DoesNotExist", cart |-> NoCartObj, new |-> FALSE]

CartProxy_init(p, request, cart) ==
    LET o == Resolution(request, cart) IN
    /\ o.new => nextCartId <= MaxCarts
    /\ carts' = IF o.new THEN CartSave(o.cart) ELSE carts
    /\ nextCartId' = IF o.new THEN nextCartId + 1 ELSE nextCartId
    /\ session' = IF o.new THEN SessionAfterNew(request, o.cart.id) ELSE session
    /\ proxies' = IF o.exc = "none" THEN [proxies EXCEPT ![p] = [cart |-> o.cart]]
                  ELSE proxies
    /\ last' = [NoCall EXCEPT !.op = "CartProxy", !.user = request.user,
                              !.session = IdentitySession(request), !.cart = cart,
                              !.exc = o.exc, !.ret = o.cart.id, !.new = o.new]
    /\ UNCHANGED <<items, nextItemId, addlog, threads>>

\* ------------------------------------------------------- CartProxy.checkout
checkout(p) ==
    /\ proxies[p] # NoProxy
    /\ LET obj == [proxies[p].cart EXCEPT !.checked_out = TRUE] IN
       /\ carts' = CartSave(obj)
       /\ proxies' = [proxies EXCEPT ![p].cart = obj]
       /\ last' = [NoCall EXCEPT !.op = "checkout", !.cart = obj.id, !.ret = obj.id]
    /\ UNCHANGED <<items, nextCartId, nextItemId, session, addlog, threads>>

\* ------------------------------------------------ CartProxy.delete_old_cart
\* Cart.objects.get(user=user)
OldCartLookup(user) == Get({c \in DOMAIN carts : carts[c].user = user})

\* The tables after the body of delete_old_cart; st is the exception that escapes it.
AfterDeleteOldCart(user) ==
    LET r == OldCartLookup(user) IN
    IF r.st = "ok"
    THEN [st |-> "none", carts |-> CartsAfterDelete(r.v),
          items |-> ItemsAfterCartDelete(r.v), addlog |-> LogAfterCartDelete(r.v)]
    ELSE [st |-> IF r.st = "DoesNotExist" THEN "none" ELSE r.st,
          carts |-> carts, items |-> items, addlog |-> addlog]

delete_old_cart(p, user) ==
    /\ proxies[p] # NoProxy
    /\ LET d == AfterDeleteOldCart(user) IN
       /\ carts' = d.carts
       /\ items' = d.items
       /\ addlog' = d.addlog
       /\ last' = [NoCall EXCEPT !.op = "delete_old_cart", !.user = user, !.exc = d.st]
    /\ UNCHANGED <<nextCartId, nextItemId, session, proxies, threads>>

\* -------------------------------------------------------- CartProxy.replace
replace(p, cart_id, new_user) ==
    /\ proxies[p] # NoProxy
    /\ LET d == AfterDeleteOldCart(new_user)
           call == [NoCall EXCEPT !.op = "replace", !.cart = cart_id, !.user = new_user]
       IN
       \/ /\ d.st # "none"
          /\ last' = [call EXCEPT !.exc = d.st]
          /\ UNCHANGED <<carts, items, addlog>>
       \/ /\ d.st = "none" /\ cart_id \in DOMAIN d.carts
          /\ carts' = [d.carts EXCEPT ![cart_id].user = new_user]
          /\ items' = d.items
          /\ addlog' = d.addlog
          /\ last' = [call EXCEPT !.ret = cart_id]
       \/ /\ d.st = "none" /\ cart_id \notin DOMAIN d.carts
          /\ carts' = d.carts
          /\ items' = d.items
          /\ addlog' = d.addlog
          /\ last' = [call EXCEPT !.exc = "CartDoesNotExist"]
    /\ UNCHANGED <<nextCartId, nextItemId, session, proxies, threads>>

\* -------------------------------------------------- CartProxy.get_last_cart
\* A lookup that selects on checked_out=True.
LastCartLookup_CheckedOut(user) ==
    Get({c \in DOMAIN carts : carts[c].user = user /\ carts[c].checked_out})

\* A lookup that leaves the checked_out filter out.
LastCartLookup_AnyState(user) == Get({c \in DOMAIN carts : carts[c].user = user})

\* Cart.objects.get(user=user, checked_out=False)
LastCartLookup(user) ==
    Get({c \in DOMAIN carts : carts[c].user = user /\ ~carts[c].checked_out})

get_last_cart(p, user) ==
    /\ proxies[p] # NoProxy
    /\ LET r == LastCartLookup(user)
           obj == [proxies[p].cart EXCEPT !.user = user]
           call == [NoCall EXCEPT !.op = "get_last_cart", !.user = user,
                                  !.cart = proxies[p].cart.id]
       IN
       \/ /\ r.st = "DoesNotExist"
          /\ carts' = CartSave(obj)
          /\ proxies' = [proxies EXCEPT ![p].cart = obj]
          /\ last' = [call EXCEPT !.ret = obj.id]
       \/ /\ r.st # "DoesNotExist"
          /\ last' = IF r.st = "ok" THEN [call EXCEPT !.ret = r.v]
                     ELSE [call EXCEPT !.exc = r.st]
          /\ UNCHANGED <<carts, proxies>>
    /\ UNCHANGED <<items, nextCartId, nextItemId, session, addlog, threads>>

\* ------------------------------------------------------------ CartProxy.add
\* A lookup by cart and content type alone, whatever the product's id.
ItemLookup_ByKind(cart_id, product) ==
    Get({i \in DOMAIN items : items[i].cart = cart_id /\ items[i].product[1] = product[1]})

\* Item.objects.get(cart=self.cart, product=product, content_type=ctype)
ItemLookup(cart_id, product) ==
    Get({i \in DOMAIN items : items[i].cart = cart_id /\ items[i].product = product})

\* models.Item() with cart, product, unit_price and quantity assigned
NewItem(cart_id, product, unit_price, quantity) ==
    [cart |-> cart_id, product |-> product, unit_price |-> unit_price,
     quantity |-> quantity]

\* An add that overwrites the quantity.
AddQuantity_Overwrite(old, quantity) == quantity

\* A save that leaves the quantity as it was read.
AddQuantity_Unchanged(old, quantity) == old

\* item.quantity += int(quantity)
AddQuantity(old, quantity) == old + quantity

Tainted == [pure |-> FALSE, price |-> 0, sum |-> 0]

add(p, product, unit_price, quantity) ==
    /\ proxies[p] # NoProxy
    /\ LET cid == proxies[p].cart.id
           r == ItemLookup(cid, product)
           call == [NoCall EXCEPT !.op = "add", !.cart = cid, !.product = product,
                                  !.price = unit_price, !.qty = quantity]
       IN
       \/ /\ r.st = "ok"
          /\ AddQuantity(items[r.v].quantity, quantity) \in (0 - MaxQuantity)..MaxQuantity
          /\ items' = [items EXCEPT ![r.v].quantity = AddQuantity(@, quantity)]
          /\ addlog' = [addlog EXCEPT ![r.v] =
                          IF @.pure THEN [@ EXCEPT !.sum = @ + quantity] ELSE @]
          /\ last' = [call EXCEPT !.item = r.v, !.ret = r.v]
          /\ UNCHANGED nextItemId
       \/ /\ r.st # "ok"
          /\ IF r.st = "DoesNotExist" /\ cid \in DOMAIN carts
             THEN /\ nextItemId <= MaxItems
                  /\ items' = [i \in DOMAIN items \cup {nextItemId} |->
                                  IF i = nextItemId
                                  THEN NewItem(cid, product, unit_price, quantity)
                                  ELSE items[i]]
                  /\ addlog' = [i \in DOMAIN items \cup {nextItemId} |->
                                  IF i = nextItemId
                                  THEN [pure |-> TRUE, price |-> unit_price,
                                        sum |-> quantity]
                                  ELSE addlog[i]]
                  /\ nextItemId' = nextItemId + 1
                  /\ last' = [call EXCEPT !.item = nextItemId, !.ret = nextItemId]
             \* the INSERT names a Cart row that is gone (the foreign key rejects
             \* it), or get() found several Items
             ELSE /\ last' = [call EXCEPT !.exc = IF r.st = "DoesNotExist"
                                                  THEN "IntegrityError" ELSE r.st]
                  /\ UNCHANGED <<items, addlog, nextItemId>>
    /\ UNCHANGED <<carts, nextCartId, session, proxies, threads>>

\* ---------------------------------------------------- CartProxy.remove_item
\* self.cart.item_set.filter(id=item_id)
RemoveFilter(cart_id, item_id) ==
    {i \in DOMAIN items : items[i].cart = cart_id /\ i = item_id}

remove_item(p, item_id) ==
    /\ proxies[p] # NoProxy
    /\ LET cid == proxies[p].cart.id
           gone == RemoveFilter(cid, item_id)
       IN
       /\ items' = [i \in DOMAIN items \ gone |-> items[i]]
       /\ addlog' = [i \in DOMAIN items \ gone |-> addlog[i]]
       \* QuerySet.delete() never raises Item.DoesNotExist
       /\ last' = [NoCall EXCEPT !.op = "remove_item", !.cart = cid, !.item = item_id]
    /\ UNCHANGED <<carts, nextCartId, nextItemId, session, proxies, threads>>

\* ---------------------------------------------------- CartProxy.update_item
\* Item.objects.get(pk=item_pk)
PkLookup(item_pk) == Get({i \in DOMAIN items : i = item_pk})

update_item(p, item_pk, new_quantity) ==
    /\ proxies[p] # NoProxy
    /\ LET r == PkLookup(item_pk)
           call == [NoCall EXCEPT !.op = "update_item", !.cart = proxies[p].cart.id,
                                  !.item = item_pk, !.qty = new_quantity]
       IN
       \/ /\ r.st = "ok"
          /\ items' = [items EXCEPT ![r.v].quantity = new_quantity]
          /\ addlog' = [addlog EXCEPT ![r.v] = Tainted]
          /\ last' = call
       \/ /\ r.st # "ok"
          /\ last' = [call EXCEPT !.exc = "ItemDoesNotExist"]
          /\ UNCHANGED <<items, addlog>>
    /\ UNCHANGED <<carts, nextCartId, nextItemId, session, proxies, threads>>

\* --------------------------------------------------------- CartProxy.update
\* A lookup by product alone, in any cart.
UpdateLookup_AnyCart(cart_id, product) ==
    Get({i \in DOMAIN items : items[i].product = product})

\* Item.objects.get(cart=self.cart, product=product)
UpdateLookup(cart_id, product) ==
    Get({i \in DOMAIN items : items[i].cart = cart_id /\ items[i].product = product})

update(p, product, quantity) ==
    /\ proxies[p] # NoProxy
    /\ LET cid == proxies[p].cart.id
           r == UpdateLookup(cid, product)
           call == [NoCall EXCEPT !.op = "update", !.cart = cid, !.product = product,
                                  !.qty = quantity]
       IN
       \/ /\ r.st = "ok"
          /\ items' = [items EXCEPT ![r.v].quantity = quantity]
          /\ addlog' = [addlog EXCEPT ![r.v] = Tainted]
          /\ last' = [call EXCEPT !.item = r.v]
       \/ /\ r.st # "ok"
          /\ last' = [call EXCEPT !.exc = IF r.st = "DoesNotExist"
                                          THEN "ItemDoesNotExist" ELSE r.st]
          /\ UNCHANGED <<items, addlog>>
    /\ UNCHANGED <<carts, nextCartId, nextItemId, session, proxies, threads>>

\* ---------------------------------------------------------- CartProxy.clear
\* Every Item row, whatever its cart.
ItemSet_AllCarts(cart_id) == DOMAIN items

\* self.cart.item_set.all()
ItemSet(cart_id) == {i \in DOMAIN items : items[i].cart = cart_id}

clear(p) ==
    /\ proxies[p] # NoProxy
    /\ LET cid == proxies[p].cart.id IN
       /\ items' = [i \in DOMAIN items \ ItemSet(cid) |-> items[i]]
       /\ addlog' = [i \in DOMAIN items \ ItemSet(cid) |-> addlog[i]]
       /\ last' = [NoCall EXCEPT !.op = "clear", !.cart = cid]
    /\ UNCHANGED <<carts, nextCartId, nextItemId, session, proxies, threads>>

\* ------------------------------------------------------------ read handlers
\* self.cart.item_set.all() evaluated to a list: the ids of the cart's Items,
\* in primary-key order.
RECURSIVE ItemList_Of(_)
ItemList_Of(S) ==
    IF S = {} THEN <<>>
    ELSE LET first == CHOOSE i \in S : \A j \in S : i <= j
         IN <<first>> \o ItemList_Of(S \ {first})

ItemList(cart_id) == ItemList_Of(ItemSet(cart_id))

\* Python's sum() of a list: the elements added to 0 from the left.
RECURSIVE sum(_)
sum(list) == IF list = <<>> THEN 0 ELSE Head(list) + sum(Tail(list))

\* Item.total_price of a row.
total_price(i) == items[i].unit_price * items[i].quantity

\* Cart.is_empty().
Cart_is_empty(cart_id) == ItemSet(cart_id) = {}

CountValue_Records(cart_id) == Len(ItemList(cart_id))

CountValue(cart_id) ==
    LET list == ItemList(cart_id)
    IN sum([k \in 1..Len(list) |-> items[list[k]].quantity])

UniqueCountValue(cart_id) == Len(ItemList(cart_id))

TotalValue_AllCarts(cart_id) ==
    LET list == ItemList_Of(DOMAIN items)
    IN sum([k \in 1..Len(list) |-> total_price(list[k])])

TotalValue(cart_id) ==
    LET list == ItemList(cart_id)
    IN sum([k \in 1..Len(list) |-> total_price(list[k])])

count(p) ==
    /\ proxies[p] # NoProxy
    /\ last' = [NoCall EXCEPT !.op = "count", !.cart = proxies[p].cart.id,
                              !.ret = CountValue(proxies[p].cart.id)]
    /\ UNCHANGED <<carts, items, nextCartId, nextItemId, session, proxies, addlog, threads>>

unique_count(p) ==
    /\ proxies[p] # NoProxy
    /\ last' = [NoCall EXCEPT !.op = "unique_count", !.cart = proxies[p].cart.id,
                              !.ret = UniqueCountValue(proxies[p].cart.id)]
    /\ UNCHANGED <<carts, items, nextCartId, nextItemId, session, proxies, addlog, threads>>

is_empty(p) ==
    /\ proxies[p] # NoProxy
    /\ last' = [NoCall EXCEPT !.op = "is_empty", !.cart = proxies[p].cart.id,
                              !.bool = Cart_is_empty(proxies[p].cart.id)]
    /\ UNCHANGED <<carts, items, nextCartId, nextItemId, session, proxies, addlog, threads>>

total(p) ==
    /\ proxies[p] # NoProxy
    /\ last' = [NoCall EXCEPT !.op = "total", !.cart = proxies[p].cart.id,
                              !.ret = TotalValue(proxies[p].cart.id)]
    /\ UNCHANGED <<carts, items, nextCartId, nextItemId, session, proxies, addlog, threads>>

\* shipping_total() returns what the configured shipping function returns for
\* the cart's Items: the argument shipping, kept in the call's price.
total_inclusive(p, shipping) ==
    /\ proxies[p] # NoProxy
    /\ last' = [NoCall EXCEPT !.op = "total_inclusive", !.cart = proxies[p].cart.id,
                              !.price = shipping,
                              !.ret = TotalValue(proxies[p].cart.id) + shipping]
    /\ UNCHANGED <<carts, items, nextCartId, nextItemId, session, proxies, addlog, threads>>

\* ------------------------------------------------- handlers, step by step
\* add up to the end of its lookup (lines 87-89): the Item found is read into
\* memory; MultipleObjectsReturned ends the call.
add_lookup(t, p, product, unit_price, quantity) ==
    /\ threads[t].pc # "looked"
    /\ proxies[p] # NoProxy
    /\ LET cid == proxies[p].cart.id
           r == ItemLookup(cid, product)
           call == [Idle EXCEPT !.op = "add", !.p = p, !.cart = cid,
                                !.product = product, !.unit_price = unit_price,
                                !.quantity = quantity, !.st = r.st]
       IN IF r.st = "MultipleObjectsReturned"
          THEN /\ threads' = [threads EXCEPT ![t] = [call EXCEPT !.pc = "done"]]
               /\ last' = [NoCall EXCEPT !.op = "add", !.cart = cid,
                                         !.product = product, !.price = unit_price,
                                         !.qty = quantity, !.exc = r.st]
          ELSE /\ threads' = [threads EXCEPT ![t] =
                                [call EXCEPT !.pc = "looked",
                                             !.obj = IF r.st = "ok"
                                                     THEN [id |-> r.v,
                                                           cart |-> items[r.v].cart,
                                                           product |-> items[r.v].product,
                                                           unit_price |-> items[r.v].unit_price,
                                                           quantity |-> items[r.v].quantity]
                                                     ELSE NoItemObj]]
               /\ UNCHANGED last
    /\ UNCHANGED <<carts, items, nextCartId, nextItemId, session, proxies, addlog>>

\* The rest of add (lines 90-100): the Item in memory, new or with its quantity
\* raised, is saved; save() writes every field of the row with the Item's id.
add_save(t) ==
    /\ threads[t].pc = "looked" /\ threads[t].op = "add"
    /\ LET c == threads[t]
           call == [NoCall EXCEPT !.op = "add", !.cart = c.cart, !.product = c.product,
                                  !.price = c.unit_price, !.qty = c.quantity]
       IN \/ /\ c.st = "ok"
             /\ AddQuantity(c.obj.quantity, c.quantity) \in (0 - MaxQuantity)..MaxQuantity
             /\ items' = [i \in DOMAIN items \cup {c.obj.id} |->
                            IF i = c.obj.id
                            THEN [cart |-> c.obj.cart, product |-> c.obj.product,
                                  unit_price |-> c.obj.unit_price,
                                  quantity |-> AddQuantity(c.obj.quantity, c.quantity)]
                            ELSE items[i]]
             /\ addlog' = [i \in DOMAIN items \cup {c.obj.id} |->
                             IF i # c.obj.id THEN addlog[i]
                             ELSE IF i \in DOMAIN addlog /\ addlog[i].pure
                                  THEN [addlog[i] EXCEPT !.sum = @ + c.quantity]
                                  ELSE Tainted]
             /\ threads' = [threads EXCEPT ![t].pc = "done", ![t].row = c.obj.id]
             /\ last' = [call EXCEPT !.item = c.obj.id, !.ret = c.obj.id]
             /\ UNCHANGED nextItemId
          \/ /\ c.st = "DoesNotExist"
             /\ IF c.cart \in DOMAIN carts
                THEN /\ nextItemId <= RaceItems
                     /\ items' = [i \in DOMAIN items \cup {nextItemId} |->
                                    IF i = nextItemId
                                    THEN NewItem(c.cart, c.product, c.unit_price, c.quantity)
                                    ELSE items[i]]
                     /\ addlog' = [i \in DOMAIN items \cup {nextItemId} |->
                                     IF i = nextItemId
                                     THEN [pure |-> TRUE, price |-> c.unit_price,
                                           sum |-> c.quantity]
                                     ELSE addlog[i]]
                     /\ nextItemId' = nextItemId + 1
                     /\ threads' = [threads EXCEPT ![t].pc = "done", ![t].row = nextItemId]
                     /\ last' = [call EXCEPT !.item = nextItemId, !.ret = nextItemId]
                ELSE /\ threads' = [threads EXCEPT ![t].pc = "done"]
                     /\ last' = [call EXCEPT !.exc = "IntegrityError"]
                     /\ UNCHANGED <<items, addlog, nextItemId>>
    /\ UNCHANGED <<carts, nextCartId, session, proxies>>

\* CartProxy(request) up to the end of its lookup (lines 46-57): a cart found is
\* bound and the call is over; any exception leads to new().
init_lookup(t, p, request) ==
    /\ threads[t].pc # "looked"
    /\ LET r == TryLookup(request)
           call == [Idle EXCEPT !.op = "CartProxy", !.p = p, !.request = request,
                                !.st = r.st]
       IN IF r.st = "ok"
          THEN /\ threads' = [threads EXCEPT ![t] = [call EXCEPT !.pc = "done"]]
               /\ proxies' = [proxies EXCEPT ![p] = [cart |-> CartRow(r.v)]]
               /\ last' = [NoCall EXCEPT !.op = "CartProxy", !.user = request.user,
                                         !.session = IdentitySession(request),
                                         !.ret = r.v]
          ELSE /\ threads' = [threads EXCEPT ![t] = [call EXCEPT !.pc = "looked"]]
               /\ UNCHANGED <<proxies, last>>
    /\ UNCHANGED <<carts, items, nextCartId, nextItemId, session, addlog>>

\* The rest of CartProxy(request) (lines 58-60, 80-84): new() inserts a Cart.
init_new(t) ==
    /\ threads[t].pc = "looked" /\ threads[t].op = "CartProxy"
    /\ nextCartId <= MaxCarts
    /\ LET c == threads[t]
           obj == NewCart(c.request.user)
       IN /\ carts' = CartSave(obj)
          /\ nextCartId' = nextCartId + 1
          /\ session' = SessionAfterNew(c.request, obj.id)
          /\ proxies' = [proxies EXCEPT ![c.p] = [cart |-> obj]]
          /\ threads' = [threads EXCEPT ![t].pc = "done", ![t].row = obj.id]
          /\ last' = [NoCall EXCEPT !.op = "CartProxy", !.user = c.request.user,
                                    !.session = IdentitySession(c.request),
                                    !.ret = obj.id, !.new = TRUE]
    /\ UNCHANGED <<items, nextItemId, addlog>>

\* ------------------------------------------------------------ specifications
\* Every handler, with the item arguments of the cart life cycle kept to one
\* product at one price and quantity.
Next ==
    \/ \E p \in Proxies, request \in Requests \cup {NoRequest},
          cart \in 0..(nextCartId - 1) : CartProxy_init(p, request, cart)
    \/ \E p \in Proxies : checkout(p)
    \/ \E p \in Proxies, user \in Users : delete_old_cart(p, user)
    \/ \E p \in Proxies, cart_id \in CartIds, user \in Users : replace(p, cart_id, user)
    \/ \E p \in Proxies, user \in Users : get_last_cart(p, user)
    \/ \E p \in Proxies : add(p, <<1, 1>>, 1, 1) /\ nextItemId' <= LifecycleItems + 1
    \/ \E p \in Proxies, item_id \in ItemIds : remove_item(p, item_id)
    \/ \E p \in Proxies, item_pk \in ItemIds : update_item(p, item_pk, 1)
    \/ \E p \in Proxies : update(p, <<1, 1>>, 1)
    \/ \E p \in Proxies : clear(p)

Spec == Init /\ [][Next]_vars

\* The item handlers with every argument, over the two carts that resolving an
\* anonymous session and then user 1 leaves; CartProxy(None, cart) moves the
\* proxy between them.
InitItems ==
    /\ carts = [c \in 1..2 |-> [user |-> c - 1, checked_out |-> FALSE]]
    /\ items = <<>>
    /\ nextCartId = 3
    /\ nextItemId = 1
    /\ session = [s \in Sessions |-> IF s = 1 THEN 2 ELSE None]
    /\ proxies = [p \in Proxies |->
                     IF p = 1 THEN [cart |-> [id |-> 2, user |-> 1, checked_out |-> FALSE]]
                     ELSE NoProxy]
    /\ addlog = <<>>
    /\ last = [NoCall EXCEPT !.op = "CartProxy", !.user = 1, !.ret = 2, !.new = TRUE]
    /\ threads = [t \in Threads |-> Idle]

NextItems ==
    \/ \E p \in Proxies, cart \in 1..(nextCartId - 1) : CartProxy_init(p, NoRequest, cart)
    \/ \E p \in Proxies, product \in Products, unit_price \in Prices,
          quantity \in Quantities : add(p, product, unit_price, quantity)
    \/ \E p \in Proxies, item_id \in ItemIds : remove_item(p, item_id)
    \/ \E p \in Proxies, item_pk \in ItemIds, new_quantity \in Quantities :
          update_item(p, item_pk, new_quantity)
    \/ \E p \in Proxies, product \in Products, quantity \in Quantities :
          update(p, product, quantity)
    \/ \E p \in Proxies : clear(p)

SpecItems == InitItems /\ [][NextItems]_vars

\* The item handlers and the read handlers.
NextReads ==
    \/ NextItems
    \/ \E p \in Proxies : count(p)
    \/ \E p \in Proxies : unique_count(p)
    \/ \E p \in Proxies : is_empty(p)
    \/ \E p \in Proxies : total(p)
    \/ \E p \in Proxies, shipping \in Shipping : total_inclusive(p, shipping)

SpecReads == InitItems /\ [][NextReads]_vars

\* The item handlers over products that differ in kind, in id or in both, at one
\* price; update and update_item set one quantity.
NextProducts ==
    \/ \E p \in Proxies, cart \in 1..(nextCartId - 1) : CartProxy_init(p, NoRequest, cart)
    \/ \E p \in Proxies, product \in AddedProducts, quantity \in Quantities :
          add(p, product, 1, quantity)
    \/ \E p \in Proxies, item_id \in ItemIds : remove_item(p, item_id)
    \/ \E p \in Proxies, item_pk \in ItemIds : update_item(p, item_pk, 1)
    \/ \E p \in Proxies, product \in AddedProducts : update(p, product, 1)
    \/ \E p \in Proxies : clear(p)

SpecProducts == InitItems /\ [][NextProducts]_vars

\* Adds run step by step by several threads on one cart, at one price and quantity.
NextAddRace ==
    \/ \E t \in Threads, p \in Proxies, product \in Products :
          add_lookup(t, p, product, 1, 1)
    \/ \E t \in Threads : add_save(t)

SpecAddRace == InitItems /\ [][NextAddRace]_vars

\* Resolutions without a cart argument, run step by step by several threads or at
\* once.
NextInitRace ==
    \/ \E t \in Threads, p \in Proxies, request \in Requests : init_lookup(t, p, request)
    \/ \E t \in Threads : init_new(t)
    \/ \E p \in Proxies, request \in Requests : CartProxy_init(p, request, None)

SpecInitRace == Init /\ [][NextInitRace]_vars
\* ------------------------------------------------------------------ claims
OpenCartsOf(user) ==
    {c \in DOMAIN carts : carts[c].user = user /\ ~carts[c].checked_out}

ClosedCartsOf(user) ==
    {c \in DOMAIN carts : carts[c].user = user /\ carts[c].checked_out}

AuthRequest(s, u) == [session |-> s, user |-> u]
AnonRequest(s)    == [session |-> s, user |-> Anonymous]

\* C1: in every state that the handlers reach one call after another, each user
\* owns at most one Cart with checked_out = false.
C1_OneOpenCartPerUser ==
    \A u \in Users : Cardinality(OpenCartsOf(u)) <= 1

\* get_last_cart has just bound the proxy's cart to a user who also owns a
\* checked-out cart.
C1_Witness ==
    /\ last.op = "get_last_cart" /\ last.exc = "none" /\ last.ret = last.cart
    /\ OpenCartsOf(last.user) = {last.ret}
    /\ ClosedCartsOf(last.user) # {}

C3_AnonymousCreatesOnce ==
    [][\A p \in Proxies, s \in Sessions :
         /\ ( session[s] = None /\ CartProxy_init(p, AnonRequest(s), None) )
            => ( /\ last'.exc = "none" /\ last'.new
                 /\ last'.ret \notin DOMAIN carts
                 /\ DOMAIN carts' = DOMAIN carts \cup {last'.ret}
                 /\ \A c \in DOMAIN carts : carts'[c] = carts[c]
                 /\ carts'[last'.ret] = [user |-> None, checked_out |-> FALSE]
                 /\ session'[s] = last'.ret
                 /\ proxies'[p].cart.id = last'.ret )
         /\ ( /\ last.op = "CartProxy" /\ last.user = Anonymous /\ last.session = s
              /\ last.cart = None /\ last.exc = "none"
              /\ CartProxy_init(p, AnonRequest(s), None) )
            => ( /\ last'.exc = "none" /\ last'.ret = last.ret /\ ~last'.new
                 /\ carts' = carts /\ nextCartId' = nextCartId )]_vars

\* An anonymous resolution has inserted a cart and bound it to its session.
C3_Witness ==
    /\ last.op = "CartProxy" /\ last.user = Anonymous /\ last.cart = None
    /\ last.new /\ session[last.session] = last.ret
    /\ carts[last.ret] = [user |-> None, checked_out |-> FALSE]
ItemsOf(cart_id) == {i \in DOMAIN items : items[i].cart = cart_id}

\* C4: after any sequence of add calls for product P on one cart, the cart holds
\* exactly one Item for P, whose quantity is the sum of the quantities added and
\* whose unit_price is the price of the first add; and each add inserts or
\* changes exactly one Item.
C4_AddAggregates ==
    /\ [](\A i \in DOMAIN items :
            addlog[i].pure =>
              /\ items[i].quantity = addlog[i].sum
              /\ items[i].unit_price = addlog[i].price
              /\ {j \in ItemsOf(items[i].cart) : items[j].product = items[i].product}
                     = {i})
    /\ [][\A p \in Proxies, product \in Products, unit_price \in Prices,
             quantity \in Quantities :
             (add(p, product, unit_price, quantity) /\ last'.exc = "none")
             => ( /\ DOMAIN items' = DOMAIN items \cup {last'.ret}
                  /\ \A j \in DOMAIN items \ {last'.ret} : items'[j] = items[j]
                  /\ items'[last'.ret].cart = proxies[p].cart.id
                  /\ items'[last'.ret].product = product )]_vars

\* An add has raised the quantity of an Item that only adds have touched, at a
\* price other than the Item's.
C4_Witness ==
    /\ last.op = "add" /\ last.exc = "none"
    /\ last.ret \in DOMAIN items
    /\ addlog[last.ret].pure
    /\ items[last.ret].quantity # last.qty
    /\ items[last.ret].unit_price # last.price

\* The request of the owner of a cart: its user, or an anonymous session whose
\* CART-ID is the cart.
OwnerRequest(cart_id, request) ==
    \/ request.user \in Users /\ carts[cart_id].user = request.user
    \/ request.user = Anonymous /\ session[request.session] = cart_id

C6_ReplaceDiscardsOldCart ==
    [][\A p \in Proxies, cart_id \in CartIds, new_user \in Users :
         ( /\ cart_id \in DOMAIN carts
           /\ carts[cart_id].user # new_user
           /\ replace(p, cart_id, new_user) )
         => ( /\ last'.exc = "none" /\ last'.ret = cart_id
              /\ cart_id \in DOMAIN carts'
              /\ carts'[cart_id].user = new_user
              /\ \A c \in OpenCartsOf(new_user) :
                    /\ c \notin DOMAIN carts'
                    /\ \A i \in DOMAIN items' : items'[i].cart # c
              /\ \A c \in DOMAIN carts' :
                    (carts'[c].user = new_user /\ ~carts'[c].checked_out)
                    => c = cart_id )]_vars

\* C7: remove_item(item_id) raises ItemDoesNotExist and leaves the Items alone when
\* no Item of the current cart has that id, and deletes exactly that Item otherwise.
C7_RemoveItem ==
    [][\A p \in Proxies, item_id \in ItemIds :
         remove_item(p, item_id)
         => IF item_id \in ItemsOf(proxies[p].cart.id)
            THEN /\ last'.exc = "none"
                 /\ DOMAIN items' = DOMAIN items \ {item_id}
                 /\ \A i \in DOMAIN items' : items'[i] = items[i]
            ELSE /\ last'.exc = "ItemDoesNotExist"
                 /\ items' = items]_vars

\* C8: resolution raises for no input, and returns a cart it has just inserted
\* whenever the lookup fails and no cart is supplied.
C8_ResolutionNeverRaises ==
    last.op = "CartProxy" => last.exc = "none"

\* C9: update(product, quantity) sets the quantity of the current cart's Item for
\* the product and changes nothing else; without such an Item it raises
\* ItemDoesNotExist and changes nothing, as update_item does for an unknown id.
C9_UpdateSetsQuantity ==
    [][/\ \A p \in Proxies, product \in Products, quantity \in Quantities :
            update(p, product, quantity)
            => LET S == {i \in ItemsOf(proxies[p].cart.id) :
                            items[i].product = product}
               IN /\ carts' = carts /\ session' = session /\ proxies' = proxies
                  /\ IF S = {}
                     THEN last'.exc = "ItemDoesNotExist" /\ items' = items
                     ELSE /\ last'.exc = "none"
                          /\ \E i \in S :
                                /\ S = {i}
                                /\ items' = [items EXCEPT ![i].quantity = quantity]
       /\ \A p \in Proxies, item_pk \in ItemIds, quantity \in Quantities :
            (item_pk \notin DOMAIN items /\ update_item(p, item_pk, quantity))
            => /\ last'.exc = "ItemDoesNotExist"
               /\ items' = items /\ carts' = carts
               /\ session' = session /\ proxies' = proxies]_vars

\* update has changed the quantity of one of two Items.
C9_Witness ==
    /\ last.op = "update" /\ last.exc = "none"
    /\ last.item \in ItemsOf(last.cart)
    /\ items[last.item].quantity = last.qty
    /\ addlog[last.item] = Tainted
    /\ Cardinality(DOMAIN items) = 2

\* C10: get_last_cart(user) makes user the owner of the proxy's cart and returns
\* it when user owns no open Cart, and otherwise returns user's open Cart and
\* changes no Cart and no Item; it deletes nothing in either case.
C10_GetLastCart ==
    [][\A p \in Proxies, user \in Users :
         get_last_cart(p, user)
         => /\ last'.exc = "none"
            /\ DOMAIN carts \subseteq DOMAIN carts'
            /\ DOMAIN items \subseteq DOMAIN items'
            /\ IF OpenCartsOf(user) = {}
               THEN /\ last'.ret = proxies[p].cart.id
                    /\ carts'[last'.ret].user = user
                    /\ proxies'[p].cart.id = proxies[p].cart.id
               ELSE /\ last'.ret \in OpenCartsOf(user)
                    /\ carts' = carts /\ items' = items]_vars

\* get_last_cart has returned the open cart of a user, other than the proxy's
\* cart, while Items exist.
C10_Witness ==
    /\ last.op = "get_last_cart" /\ last.exc = "none"
    /\ last.ret # last.cart
    /\ last.ret \in OpenCartsOf(last.user)
    /\ DOMAIN items # {}

\* C11: delete_old_cart(user) raises nothing, deletes the open Cart of user with
\* its Items, leaves every checked-out Cart and every Cart of another owner as it
\* was, and changes nothing when user owns no open Cart.
C11_DeleteOldCart ==
    [][\A p \in Proxies, user \in Users :
         delete_old_cart(p, user)
         => ( /\ last'.exc = "none"
              /\ \A c \in OpenCartsOf(user) :
                    /\ c \notin DOMAIN carts'
                    /\ \A i \in DOMAIN items' : items'[i].cart # c
              /\ \A c \in DOMAIN carts \ OpenCartsOf(user) :
                    c \in DOMAIN carts' /\ carts'[c] = carts[c]
              /\ OpenCartsOf(user) = {}
                    => (carts' = carts /\ items' = items) )]_vars

RECURSIVE QuantitySum(_)
QuantitySum(S) ==
    IF S = {} THEN 0
    ELSE LET i == CHOOSE j \in S : TRUE
         IN items[i].quantity + QuantitySum(S \ {i})

RECURSIVE PriceSum(_)
PriceSum(S) ==
    IF S = {} THEN 0
    ELSE LET i == CHOOSE j \in S : TRUE
         IN items[i].unit_price * items[i].quantity + PriceSum(S \ {i})

\* C13: total() returns the sum of unit_price times quantity over the Items of
\* the proxy's cart, in exact amounts, and 0 for a cart without Items;
\* total_inclusive() returns that sum plus the amount of the shipping function.
C13_Totals ==
    /\ last.op = "total"
          => /\ last.ret = PriceSum(ItemsOf(last.cart))
             /\ ItemsOf(last.cart) = {} => last.ret = 0
    /\ last.op = "total_inclusive"
          => last.ret = PriceSum(ItemsOf(last.cart)) + last.price

\* total_inclusive() has returned the total of two Items of different prices,
\* one of them held more than once, plus a shipping amount.
C13_Witness ==
    /\ last.op = "total_inclusive" /\ last.price > 0
    /\ \E i, j \in ItemsOf(last.cart) :
          /\ items[i].unit_price # items[j].unit_price
          /\ items[i].quantity > 1
          /\ last.ret = items[i].unit_price * items[i].quantity
                        + items[j].unit_price * items[j].quantity + last.price

\* C14: clear() raises nothing, deletes every Item of the proxy's cart and leaves
\* every Item of another cart and every Cart as it was; on a cart without Items it
\* changes nothing, and a clear() that follows a clear() of the same cart leaves
\* the state of the first.
C14_Clear ==
    [][\A p \in Proxies :
         clear(p)
         => LET cid == proxies[p].cart.id
            IN /\ last'.exc = "none"
               /\ DOMAIN items' = DOMAIN items \ ItemsOf(cid)
               /\ \A i \in DOMAIN items' : items'[i] = items[i]
               /\ carts' = carts /\ session' = session /\ proxies' = proxies
               /\ ItemsOf(cid) = {} => items' = items
               /\ (last.op = "clear" /\ last.cart = cid) => vars' = vars]_vars

\* clear() has emptied a cart while the Item of the other cart stays.
C14_Witness ==
    /\ last.op = "clear" /\ last.exc = "none"
    /\ ItemsOf(last.cart) = {}
    /\ Cardinality(DOMAIN items) = 1
    /\ nextItemId = MaxItems + 1

\* C15: in every state that add, update, update_item, remove_item and clear reach
\* one call after another, no cart holds two Items of one product (kind, id); an
\* add leaves the Items of every other product as they were, and raises the
\* cart's unique_count by one when the cart held no Item of the product, so that
\* products that differ in kind or in id are held in separate Items.
C15_OneItemPerProduct ==
    /\ [](\A i, j \in DOMAIN items :
            (items[i].cart = items[j].cart /\ items[i].product = items[j].product)
            => i = j)
    /\ [][\A p \in Proxies, product \in AddedProducts, quantity \in Quantities :
             (add(p, product, 1, quantity) /\ last'.exc = "none")
             => LET cid == proxies[p].cart.id
                    held == {i \in ItemsOf(cid) : items[i].product = product}
                IN /\ \A i \in DOMAIN items :
                         items[i].product # product
                         => (i \in DOMAIN items' /\ items'[i] = items[i])
                   /\ UniqueCountValue(cid)' =
                         IF held = {} THEN UniqueCountValue(cid) + 1
                         ELSE UniqueCountValue(cid)]_vars

\* A cart to which two products of one kind and different ids were added holds
\* two Items, none of them written by anything but add.
C15_Witness ==
    /\ last.op = "add" /\ last.exc = "none"
    /\ UniqueCountValue(last.cart) = 2
    /\ \E i, j \in ItemsOf(last.cart) :
          /\ items[i].product[1] = items[j].product[1]
          /\ items[i].product[2] # items[j].product[2]
          /\ addlog[i].pure /\ addlog[j].pure

\* C16: every Item has a quantity of at least 1, whatever quantities add, update
\* and update_item were given.
C16_PositiveQuantity ==
    \A i \in DOMAIN items : items[i].quantity >= 1

\* The Items of a cart for a product.
ItemsFor(cart_id, product) == {i \in ItemsOf(cart_id) : items[i].product = product}

\* C17: when two adds for one (cart, product) both found no Item at their lookup
\* and both saved, the cart holds two Items for the product; and an add that found
\* the Item saves the quantity it read plus its own, so that an increment saved
\* between its lookup and its save is lost.
C17_AddRace ==
    /\ [](\A t1, t2 \in Threads :
            ( /\ t1 # t2
              /\ threads[t1].op = "add" /\ threads[t2].op = "add"
              /\ threads[t1].pc = "done" /\ threads[t2].pc = "done"
              /\ threads[t1].st = "DoesNotExist" /\ threads[t2].st = "DoesNotExist"
              /\ threads[t1].row # None /\ threads[t2].row # None
              /\ threads[t1].cart = threads[t2].cart
              /\ threads[t1].product = threads[t2].product )
            => ( /\ threads[t1].row # threads[t2].row
                 /\ {threads[t1].row, threads[t2].row}
                       \subseteq ItemsFor(threads[t1].cart, threads[t1].product) ))
    /\ [][\A t \in Threads :
             (add_save(t) /\ threads[t].st = "ok")
             => LET c == threads[t]
                IN /\ items'[c.obj.id].quantity = c.obj.quantity + c.quantity
                   /\ ( /\ c.obj.id \in DOMAIN items
                        /\ items[c.obj.id].quantity = c.obj.quantity + c.quantity
                        /\ c.quantity > 0 )
                      => items'[c.obj.id].quantity
                            < items[c.obj.id].quantity + c.quantity]_vars

\* Both threads have inserted an Item for one product after finding none, and
\* another Item that only adds have written holds less than the sum of the
\* quantities added to it.
C17_Witness ==
    /\ threads[1].op = "add" /\ threads[2].op = "add"
    /\ threads[1].pc = "done" /\ threads[2].pc = "done"
    /\ threads[1].st = "DoesNotExist" /\ threads[2].st = "DoesNotExist"
    /\ threads[1].product = threads[2].product
    /\ Cardinality(ItemsFor(threads[1].cart, threads[1].product)) = 2
    /\ \E i \in DOMAIN items :
          /\ addlog[i].pure
          /\ items[i].cart = threads[1].cart
          /\ items[i].quantity < addlog[i].sum

\* C18: when two resolutions of one user both found no open Cart at their lookup
\* and both went on to new(), the user owns two open Carts; and every resolution
\* of a user who owns two or more open Carts, run at once or step by step,
\* inserts one more Cart and returns it.
C18_ResolutionRace ==
    /\ [](\A t1, t2 \in Threads :
            ( /\ t1 # t2
              /\ threads[t1].op = "CartProxy" /\ threads[t2].op = "CartProxy"
              /\ threads[t1].pc = "done" /\ threads[t2].pc = "done"
              /\ threads[t1].st = "DoesNotExist" /\ threads[t2].st = "DoesNotExist"
              /\ threads[t1].request.user \in Users
              /\ threads[t1].request.user = threads[t2].request.user )
            => ( /\ threads[t1].row # threads[t2].row
                 /\ {threads[t1].row, threads[t2].row}
                       \subseteq OpenCartsOf(threads[t1].request.user) ))
    /\ [][\A p \in Proxies, s \in Sessions, u \in Users :
             Cardinality(OpenCartsOf(u)) >= 2
             => /\ CartProxy_init(p, AuthRequest(s, u), None)
                   => ( /\ last'.exc = "none" /\ last'.new
                        /\ last'.ret \notin DOMAIN carts
                        /\ OpenCartsOf(u)' = OpenCartsOf(u) \cup {last'.ret} )
                /\ \A t \in Threads :
                      init_lookup(t, p, AuthRequest(s, u))
                      => ( /\ threads'[t].pc = "looked"
                           /\ threads'[t].st = "MultipleObjectsReturned"
                           /\ proxies' = proxies )]_vars

\* Both threads have inserted a Cart for one user after finding none, and a later
\* resolution of the user has inserted a third.
C18_Witness ==
    /\ threads[1].op = "CartProxy" /\ threads[2].op = "CartProxy"
    /\ threads[1].pc = "done" /\ threads[2].pc = "done"
    /\ threads[1].st = "DoesNotExist" /\ threads[2].st = "DoesNotExist"
    /\ threads[1].request.user \in Users
    /\ threads[1].request.user = threads[2].request.user
    /\ last.op = "CartProxy" /\ last.new /\ last.user = threads[1].request.user
    /\ last.ret \notin {threads[1].row, threads[2].row}
    /\ Cardinality(OpenCartsOf(last.user)) = 3

\* C19: a replace(cart_id, new_user) that raises, CartDoesNotExist or anything
\* else, leaves every Cart and every Item as it was.
C19_ReplaceAllOrNothing ==
    [][\A p \in Proxies, cart_id \in CartIds, new_user \in Users :
         (replace(p, cart_id, new_user) /\ last'.exc # "none")
         => (carts' = carts /\ items' = items)]_vars

\* C20: add, update, update_item, remove_item and clear, called on a proxy of one
\* cart with any item id or product, leave every Item of every other cart as it
\* was and insert no Item into another cart.
C20_CartIsolation ==
    [][\A p \in Proxies :
         ( \/ \E product \in Products, unit_price \in Prices, quantity \in Quantities :
                 add(p, product, unit_price, quantity)
           \/ \E product \in Products, quantity \in Quantities :
                 update(p, product, quantity)
           \/ \E item_pk \in ItemIds, new_quantity \in Quantities :
                 update_item(p, item_pk, new_quantity)
           \/ \E item_id \in ItemIds : remove_item(p, item_id)
           \/ clear(p) )
         => LET A == proxies[p].cart.id
            IN /\ \A i \in DOMAIN items :
                     items[i].cart # A
                     => (i \in DOMAIN items' /\ items'[i] = items[i])
               /\ \A i \in DOMAIN items' \ DOMAIN items : items'[i].cart = A]_vars
====
